---------------------------- MODULE Spec2Model ----------------------------
(***************************************************************************)
(* A model of objectpack/tools.py: QuerySplitter, ModelCache,              *)
(* TransactionCM, the request-parameter extractors and matcher /           *)
(* model_to_dict.  Every helper is sequential; each gets a specification   *)
(* of its own over the variables that hold its state.                      *)
(*                                                                         *)
(* Conventions.  Python's None is the empty tuple and a present value v is *)
(* <<v>>.  A Python str is a tuple of one-character strings.  A raised     *)
(* exception is carried in a field `raised` ("None" when nothing was       *)
(* raised).                                                                *)
(***************************************************************************)
EXTENDS Integers, Sequences, FiniteSets, TLC

VARIABLES
    qs,     \* the QuerySplitter instance
    mr,     \* the frame of QuerySplitter.make_rows
    call,   \* the outcome of the client's latest call on the splitter
    mc,     \* the ModelCache instance
    db,     \* the rows of the model's table
    log,    \* the calls made on the ModelCache, oldest first
    tx,     \* the connections' transaction state and the open with-blocks
    ex,     \* a call of a request-parameter extractor
    mt      \* a use of matcher / model_to_dict

vars == <<qs, mr, call, mc, db, log, tx, ex, mt>>


None == <<>>
Some(v) == <<v>>

Min(a, b) == IF a <= b THEN a ELSE b

(***************************************************************************)
(* Bounds of the model.                                                    *)
(***************************************************************************)
MaxLen == 5     \* longest query
MaxStart == 2   \* largest start argument
MaxLimit == 3   \* largest limit argument
MaxObjs == 2    \* most rows in the table before the first get
MaxCalls == 3   \* most calls made on one ModelCache
MaxBlocks == 3  \* most with-blocks entered in one run
MaxStr == 3     \* longest free-form request value
MaxPatterns == 2 \* longest include or exclude list


(***************************************************************************)
(* The state of a helper that a specification does not exercise.           *)
(***************************************************************************)
CacheIdle ==
    /\ mc = <<>>
    /\ db = <<>>
    /\ log = <<>>

TxIdle == tx = <<>>

ExtractIdle == ex = <<>>

MatcherIdle == mt = <<>>

SplitterIdle ==
    /\ qs = <<>>
    /\ mr = <<>>
    /\ call = <<>>

(***************************************************************************)
(* Python values used by several helpers.                                  *)
(***************************************************************************)
Digits == {"0", "1", "2", "3", "4", "5", "6", "7", "8", "9"}

DigitVal(c) ==
    CASE c = "0" -> 0 [] c = "1" -> 1 [] c = "2" -> 2 [] c = "3" -> 3
      [] c = "4" -> 4 [] c = "5" -> 5 [] c = "6" -> 6 [] c = "7" -> 7
      [] c = "8" -> 8 [] c = "9" -> 9

\* seq[lo:hi] for 0 <= lo, 0 <= hi (Python slice, clipped to the length).
Slice(seq, lo, hi) ==
    LET l == Min(lo, Len(seq))
        h == Min(hi, Len(seq))
    IN  IF h <= l THEN <<>> ELSE [i \in 1..(h - l) |-> seq[l + i]]

\* str.strip(): whitespace removed at both ends.
RECURSIVE LStrip(_)
LStrip(s) == IF s # <<>> /\ Head(s) = " " THEN LStrip(Tail(s)) ELSE s

RECURSIVE RStrip(_)
RStrip(s) ==
    IF s # <<>> /\ s[Len(s)] = " " THEN RStrip(SubSeq(s, 1, Len(s) - 1)) ELSE s

strip(s) == RStrip(LStrip(s))

RECURSIVE DigitsVal(_)
DigitsVal(s) ==
    IF s = <<>> THEN 0
    ELSE 10 * DigitsVal(SubSeq(s, 1, Len(s) - 1)) + DigitVal(s[Len(s)])

\* int(s) of a str: surrounding whitespace, an optional sign, one or more
\* decimal digits; anything else raises ValueError.
int(s) ==
    LET t == strip(s)
        signed == t # <<>> /\ Head(t) \in {"-", "+"}
        d == IF signed THEN Tail(t) ELSE t
    IN  IF d # <<>> /\ \A i \in 1..Len(d) : d[i] \in Digits
        THEN [raised |-> "None",
              value |-> IF signed /\ Head(t) = "-" THEN 0 - DigitsVal(d)
                        ELSE DigitsVal(d)]
        ELSE [raised |-> "ValueError", value |-> 0]

\* request.REQUEST.get(key, default): the request is a record of raw
\* strings; a key that was not sent is not in its domain.
REQUEST_get(request, key, default) ==
    IF key \in DOMAIN request THEN request[key] ELSE default

(***************************************************************************)
(* extract_int                                                             *)
(***************************************************************************)
extract_int(request, key) ==
    LET r == int(REQUEST_get(request, key, <<>>))
    IN  IF r.raised = "ValueError"
        THEN [raised |-> "None", value |-> None]
        ELSE [raised |-> "None", value |-> Some(r.value)]

(***************************************************************************)
(* QuerySplitter                                                           *)
(***************************************************************************)
\* __init__.  _chunk starts as None; both tests of it (`not self._chunk`,
\* `if self._chunk`) treat None and [] alike, so it is held as a tuple.
\* skip_last names what the attribute lookup self.skip_last finds: the
\* method of the class, or the instance attribute __iter__ stores.
QuerySplitter(query, start, limit) ==
    [data |-> query, start |-> start, limit |-> limit,
     chunk |-> <<>>, cnt |-> 0, no_more_data |-> FALSE,
     skip_last |-> "method"]

\* __iter__: with no limit the splitter hands out a plain iterator over
\* the data and stores a lambda under the instance attribute skip_last.
__iter__(self) ==
    IF self.limit = 0
    THEN [self |-> [self EXCEPT !.skip_last = "lambda"], it |-> "data"]
    ELSE [self |-> self, it |-> "self"]

\* A faulty Refill, to show C1 depends on it: _start is not moved on.
Refill_without_advance(self) ==
    LET chunk == Slice(self.data, self.start, self.start + self.limit)
    IN  IF Len(chunk) < self.limit
        THEN [self EXCEPT !.chunk = chunk, !.no_more_data = TRUE]
        ELSE [self EXCEPT !.chunk = chunk]

\* The chunk next() loads when the current one is used up.
Refill(self) ==
    LET chunk == Slice(self.data, self.start, self.start + self.limit)
    IN  IF Len(chunk) < self.limit
        THEN [self EXCEPT !.chunk = chunk, !.no_more_data = TRUE]
        ELSE [self EXCEPT !.chunk = chunk, !.start = self.start + self.limit]

next(self) ==
    IF self.cnt >= self.limit
    THEN [self |-> self, raised |-> "StopIteration", value |-> None]
    ELSE LET s1 == IF self.chunk = <<>> /\ ~self.no_more_data
                   THEN Refill(self) ELSE self
         IN  IF s1.chunk # <<>>
             THEN [self |-> [s1 EXCEPT !.cnt = s1.cnt + 1,
                                       !.chunk = Tail(s1.chunk)],
                   raised |-> "None", value |-> Some(Head(s1.chunk))]
             ELSE [self |-> s1, raised |-> "StopIteration", value |-> None]

\* A faulty skip_last, to show C6 depends on it: the guard is missing.
skip_last_unguarded(self) ==
    [self |-> [self EXCEPT !.cnt = self.cnt - 1], raised |-> "None"]

\* The body of the method skip_last.
skip_last_method(self) ==
    IF self.cnt = 0
    THEN [self |-> self, raised |-> "IndexError"]
    ELSE [self |-> [self EXCEPT !.cnt = self.cnt - 1], raised |-> "None"]

\* The stub of line 46 is `lambda self: None`: one positional parameter.
StubArity == 1

\* Calling a function with nargs arguments.
CallLambda(self, nargs) ==
    IF nargs = StubArity
    THEN [self |-> self, raised |-> "None"]
    ELSE [self |-> self, raised |-> "TypeError"]

\* The call `query.skip_last()`.  A method found on the class is bound and
\* receives the instance; a function stored on the instance is not bound
\* and receives only the arguments written at the call, here none.
skip_last(self) ==
    IF self.skip_last = "method"
    THEN skip_last_method(self)
    ELSE CallLambda(self, 0)

(***************************************************************************)
(* QuerySplitter.make_rows                                                 *)
(***************************************************************************)
\* x or y, for x an optional int: None and 0 are false.
Or(x, y) == IF x = None \/ x = Some(0) THEN y ELSE x[1]

\* Lines 106-108: paging parameters of the request override the arguments.
EffStart(request, start) ==
    IF request # None
    THEN Or(extract_int(request[1], "start").value, start) ELSE start

EffLimit(request, limit) ==
    IF request # None
    THEN Or(extract_int(request[1], "limit").value, limit) ELSE limit

\* The row factory of the caller; the default is the identity.
row_fabric(item) == 10 * item + 1

\* The queries: range(n).
Range(n) == [i \in 1..n |-> i - 1]

\* The requests a caller may pass: none, or one whose start and limit
\* are missing, malformed or a number.
RawParams == {<<>>, <<"x">>, <<"0">>, <<"1">>}

Requests ==
    {None} \cup
    {Some([start |-> s, limit |-> l]) : s \in RawParams, l \in RawParams} \cup
    {Some([limit |-> l]) : l \in {<<"2">>}}

MakeRowsInit ==
    /\ \E n \in 0..MaxLen, start \in 0..MaxStart, limit \in 0..MaxLimit,
          validator \in SUBSET (0..(MaxLen - 1)), request \in Requests :
          /\ mr = [pc |-> "for", query |-> Range(n), start |-> start,
                   limit |-> limit, validator |-> validator,
                   request |-> request, rows |-> <<>>, it |-> "none",
                   pos |-> 0, raised |-> "None"]
          /\ qs = QuerySplitter(Range(n), EffStart(request, start),
                                EffLimit(request, limit))
    /\ call = [op |-> "none", raised |-> "None", value |-> None]
    /\ CacheIdle /\ TxIdle /\ ExtractIdle /\ MatcherIdle

\* `for item in query`: the loop asks the splitter for its iterator.
MakeRowsIter ==
    /\ mr.pc = "for"
    /\ LET r == __iter__(qs)
       IN  /\ qs' = r.self
           /\ mr' = [mr EXCEPT !.pc = "loop", !.it = r.it]
    /\ UNCHANGED <<call, mc, db, log, tx, ex, mt>>

\* One fetch of the loop's iterator: the splitter itself, or the plain
\* iterator over the data.
Fetch ==
    IF mr.it = "self"
    THEN next(qs)
    ELSE IF mr.pos < Len(qs.data)
         THEN [self |-> qs, raised |-> "None",
               value |-> Some(qs.data[mr.pos + 1])]
         ELSE [self |-> qs, raised |-> "StopIteration", value |-> None]

\* One turn of the loop of lines 113-117, up to `return rows`.
MakeRowsStep ==
    /\ mr.pc = "loop"
    /\ LET f == Fetch
       IN  IF f.raised = "StopIteration"
           THEN /\ qs' = f.self
                /\ mr' = [mr EXCEPT !.pc = "return"]
           ELSE LET item == f.value[1]
                    pos == IF mr.it = "data" THEN mr.pos + 1 ELSE mr.pos
                IN  IF item \in mr.validator
                    THEN /\ qs' = f.self
                         /\ mr' = [mr EXCEPT
                                     !.rows = Append(@, row_fabric(item)),
                                     !.pos = pos]
                    ELSE LET k == skip_last(f.self)
                         IN  /\ qs' = k.self
                             /\ mr' = [mr EXCEPT
                                         !.pos = pos,
                                         !.pc = IF k.raised = "None"
                                                THEN "loop" ELSE "raised",
                                         !.raised = k.raised]
    /\ UNCHANGED <<call, mc, db, log, tx, ex, mt>>

MakeRowsNext == MakeRowsIter \/ MakeRowsStep

SpecMakeRows == MakeRowsInit /\ [][MakeRowsNext]_vars

(***************************************************************************)
(* A client driving one splitter directly: any interleaving of __iter__(), *)
(* next() and skip_last().                                                 *)
(***************************************************************************)
NoFrame ==
    [pc |-> "none", query |-> <<>>, start |-> 0, limit |-> 0,
     validator |-> {}, request |-> None, rows |-> <<>>, it |-> "none",
     pos |-> 0, raised |-> "None"]

SplitterInit ==
    /\ \E n \in 0..MaxLen, start \in 0..MaxStart, limit \in 0..MaxLimit :
          qs = QuerySplitter(Range(n), start, limit)
    /\ mr = NoFrame
    /\ call = [op |-> "none", raised |-> "None", value |-> None]
    /\ CacheIdle /\ TxIdle /\ ExtractIdle /\ MatcherIdle

ClientIter ==
    /\ qs' = __iter__(qs).self
    /\ call' = [op |-> "iter", raised |-> "None", value |-> None]
    /\ UNCHANGED <<mr, mc, db, log, tx, ex, mt>>

ClientNext ==
    /\ LET r == next(qs)
       IN  /\ qs' = r.self
           /\ call' = [op |-> "next", raised |-> r.raised, value |-> r.value]
    /\ UNCHANGED <<mr, mc, db, log, tx, ex, mt>>

ClientSkipLast ==
    /\ LET r == skip_last(qs)
       IN  /\ qs' = r.self
           /\ call' = [op |-> "skip_last", raised |-> r.raised,
                       value |-> None]
    /\ UNCHANGED <<mr, mc, db, log, tx, ex, mt>>

SplitterNext == ClientIter \/ ClientNext \/ ClientSkipLast

SpecSplitter == SplitterInit /\ [][SplitterNext]_vars

(***************************************************************************)
(* Properties of QuerySplitter                                             *)
(***************************************************************************)
\* What make_rows is to return: row_fabric over the first `limit` valid
\* elements of query[start:], in order.
FirstValid(query, start, limit, validator) ==
    LET valid == SelectSeq(Slice(query, start, Len(query)),
                           LAMBDA x : x \in validator)
        kept == SubSeq(valid, 1, Min(limit, Len(valid)))
    IN  [i \in 1..Len(kept) |-> row_fabric(kept[i])]

\* C1: with start >= 0, limit >= 1 and no request, make_rows raises
\* nothing and returns row_fabric applied, in order, to the first `limit`
\* elements of query[start:] the validator accepts (all of them when there
\* are fewer): rejected elements do not use up the limit, and no valid
\* element is skipped or repeated at a chunk boundary.
C1_MakeRowsFirstValid ==
    (mr.pc # "none" /\ mr.request = None /\ mr.limit >= 1) =>
        /\ mr.raised = "None"
        /\ mr.pc = "return" =>
              mr.rows = FirstValid(mr.query, mr.start, mr.limit, mr.validator)

\* A run of C1 that crossed a chunk boundary after a rejection: the limit
\* was reached, with elements rejected, from a second chunk.
C1_Witness ==
    /\ mr.pc = "return" /\ mr.request = None /\ mr.limit >= 2
    /\ Len(mr.rows) = mr.limit
    /\ qs.start >= mr.start + 2 * mr.limit
    /\ \E x \in 0..(MaxLen - 1) : x \notin mr.validator /\ x >= mr.start
                                   /\ x < Len(mr.query)

\* C6: on a splitter with limit >= 1, whatever the calls made so far,
\* skip_last() with no counted item raises IndexError and changes nothing,
\* otherwise it lowers the count by exactly one and raises nothing; and the
\* count stays within 0..limit.
C6_SkipLastGuarded ==
    /\ [](qs.limit >= 1 => (0 <= qs.cnt /\ qs.cnt <= qs.limit))
    /\ [][(call'.op = "skip_last" /\ qs.limit >= 1) =>
             IF qs.cnt = 0
             THEN call'.raised = "IndexError" /\ qs' = qs
             ELSE /\ call'.raised = "None"
                  /\ qs' = [qs EXCEPT !.cnt = qs.cnt - 1]]_vars

\* skip_last() refused after the client had fetched items and rolled every
\* one of them back.
C6_Witness ==
    /\ qs.limit >= 1
    /\ call.op = "skip_last" /\ call.raised = "IndexError"
    /\ qs.cnt = 0
    /\ qs.start > 0 /\ Len(qs.chunk) < qs.limit

\* C10: with limit 0 make_rows visits every element of the query, the
\* replaced skip_last does nothing and raises nothing, and the rows are
\* row_fabric of exactly the accepted elements.
C10_NoLimitStubIsNoop ==
    (mr.pc # "none" /\ mr.request = None /\ mr.limit = 0) =>
        /\ mr.raised = "None"
        /\ mr.pc = "return" =>
              mr.rows = FirstValid(mr.query, 0, Len(mr.query), mr.validator)

(***************************************************************************)
(* ModelCache                                                              *)
(***************************************************************************)
\* The model has two fields besides id.  kwargs, a dict, is the tuple of
\* its items <<name, value>> in the order the dict yields them.
Fields == {"a", "b"}
FieldVals == {0, 1}
KwVals == {1}

\* The order of the field names as Python compares str.
NameRank(n) == IF n = "a" THEN 1 ELSE 2

Kwargs ==
    {<<>>} \cup
    {<< <<n, v>> >> : n \in Fields, v \in KwVals} \cup
    {<< <<p[1], v1>>, <<p[2], v2>> >> :
        p \in {q \in Fields \X Fields : q[1] # q[2]},
        v1 \in KwVals, v2 \in KwVals}

\* sorted(items, key=lambda i: i[0])
RECURSIVE InsertByName(_, _)
InsertByName(item, items) ==
    IF items = <<>> THEN <<item>>
    ELSE IF NameRank(item[1]) < NameRank(Head(items)[1])
         THEN <<item>> \o items
         ELSE <<Head(items)>> \o InsertByName(item, Tail(items))

RECURSIVE sorted(_)
sorted(items) ==
    IF items = <<>> THEN <<>>
    ELSE InsertByName(items[Len(items)], sorted(SubSeq(items, 1, Len(items) - 1)))

\* A faulty _key_for_dict, to show C2 depends on it: the items unsorted.
key_unsorted(d) == d

\* ModelCache._key_for_dict
_key_for_dict(d) == sorted(d)

\* __init__: the cache is the set of its entries [key, value].
ModelCache(object_fabric) ==
    [cache |-> {}, last_kwargs |-> <<>>, fabric |-> object_fabric]

InCache(cache, key) == \E e \in cache : e.key = key
CacheAt(cache, key) == (CHOOSE e \in cache : e.key = key).value
CachePut(cache, key, value) ==
    {e \in cache : e.key # key} \cup {[key |-> key, value |-> value]}
CachePop(cache, key) == {e \in cache : e.key # key}

\* self._model.objects.get(**kwargs): the one row that has every given field
\* value; DoesNotExist with no such row, MultipleObjectsReturned with
\* several.  A row is known by its id, its place in the table.
objects_get(table, kwargs) ==
    LET ids == {i \in 1..Len(table) :
                  \A j \in 1..Len(kwargs) : table[i][kwargs[j][1]] = kwargs[j][2]}
    IN  IF ids = {} THEN [raised |-> "DoesNotExist", value |-> None]
        ELSE IF Cardinality(ids) > 1
             THEN [raised |-> "MultipleObjectsReturned", value |-> None]
             ELSE [raised |-> "None", value |-> Some(CHOOSE i \in ids : TRUE)]

\* A faulty _get_object, to show C7 depends on it: every ORM error caught.
get_object_catching_all(table, kwargs) ==
    LET r == objects_get(table, kwargs)
    IN  IF r.raised # "None" THEN [raised |-> "None", value |-> None] ELSE r

\* ModelCache._get_object
_get_object(table, kwargs) ==
    LET r == objects_get(table, kwargs)
    IN  IF r.raised = "DoesNotExist"
        THEN [raised |-> "None", value |-> None]
        ELSE r

\* The object factory of the caller: it saves a new row that has the given
\* field values (the other fields at their default) and returns it, as the
\* two assertions of get require.
NewRow(kwargs) ==
    [n \in Fields |->
        IF \E j \in 1..Len(kwargs) : kwargs[j][1] = n
        THEN kwargs[CHOOSE j \in 1..Len(kwargs) : kwargs[j][1] = n][2]
        ELSE 0]

\* ModelCache.get: the instance and the table after the call, what it
\* raised or returned, and whether the factory ran.
get(self, table, kwargs) ==
    LET s1 == [self EXCEPT !.last_kwargs = kwargs]
        key == _key_for_dict(kwargs)
    IN  IF InCache(s1.cache, key)
        THEN [self |-> s1, db |-> table, raised |-> "None",
              value |-> CacheAt(s1.cache, key), looked_up |-> FALSE,
              fabric_called |-> FALSE]
        ELSE LET found == _get_object(table, kwargs)
             IN  IF found.raised # "None"
                 THEN [self |-> s1, db |-> table, raised |-> found.raised,
                       value |-> None, looked_up |-> TRUE,
                       fabric_called |-> FALSE]
                 ELSE IF found.value = None /\ s1.fabric
                      THEN LET table1 == Append(table, NewRow(kwargs))
                               new == Some(Len(table1))
                           IN  [self |-> [s1 EXCEPT
                                    !.cache = CachePut(@, key, new)],
                                db |-> table1, raised |-> "None",
                                value |-> new, looked_up |-> TRUE,
                                fabric_called |-> TRUE]
                      ELSE [self |-> [s1 EXCEPT
                                !.cache = CachePut(@, key, found.value)],
                            db |-> table, raised |-> "None",
                            value |-> found.value, looked_up |-> TRUE,
                            fabric_called |-> FALSE]

\* ModelCache.forget_last
forget_last(self) ==
    IF self.last_kwargs # <<>>
    THEN [self EXCEPT !.cache = CachePop(@, _key_for_dict(self.last_kwargs))]
    ELSE self

Rows == [Fields -> FieldVals]

RECURSIVE Tables(_)
Tables(n) ==
    IF n = 0 THEN {<<>>}
    ELSE LET shorter == Tables(n - 1)
         IN  shorter \cup {Append(t, r) : t \in shorter, r \in Rows}

CacheInit ==
    /\ \E object_fabric \in BOOLEAN : mc = ModelCache(object_fabric)
    /\ db \in Tables(MaxObjs)
    /\ log = <<>>
    /\ SplitterIdle /\ TxIdle /\ ExtractIdle /\ MatcherIdle

\* A caller's cache.get(**kwargs).  The log keeps what the ORM answered to
\* the lookup, when one was made.
Get ==
    /\ Len(log) < MaxCalls
    /\ \E kwargs \in Kwargs :
          LET r == get(mc, db, kwargs)
          IN  /\ mc' = r.self
              /\ db' = r.db
              /\ log' = Append(log,
                    [op |-> "get", kwargs |-> kwargs,
                     orm |-> IF r.looked_up
                             THEN IF objects_get(db, kwargs).raised = "None"
                                  THEN "found"
                                  ELSE objects_get(db, kwargs).raised
                             ELSE "no lookup",
                     fabric_called |-> r.fabric_called,
                     raised |-> r.raised, value |-> r.value])
    /\ UNCHANGED <<qs, mr, call, tx, ex, mt>>

\* A caller's cache.forget_last().
ForgetLast ==
    /\ Len(log) < MaxCalls
    /\ mc' = forget_last(mc)
    /\ log' = Append(log,
          [op |-> "forget_last", kwargs |-> <<>>, orm |-> "no lookup",
           fabric_called |-> FALSE, raised |-> "None", value |-> None])
    /\ UNCHANGED <<db, qs, mr, call, tx, ex, mt>>

CacheNext == Get \/ ForgetLast

SpecCache == CacheInit /\ [][CacheNext]_vars

(***************************************************************************)
(* Properties of ModelCache                                                *)
(***************************************************************************)
\* Two kwargs are the same set of keyword arguments.
SameKwargs(k1, k2) ==
    {k1[i] : i \in 1..Len(k1)} = {k2[i] : i \in 1..Len(k2)}

Gets == {i \in 1..Len(log) : log[i].op = "get"}

\* Calls i < j are gets of the same keyword arguments with no forget_last
\* between them.
Repeats(i, j) ==
    /\ i \in Gets /\ j \in Gets /\ i < j
    /\ SameKwargs(log[i].kwargs, log[j].kwargs)
    /\ \A m \in i..j : log[m].op # "forget_last"

FabricOnlyOnMiss ==
    \A i \in Gets : log[i].fabric_called => log[i].orm = "DoesNotExist"

\* C2 as stated: with no forget_last in between, the lookup runs at most
\* once per set of kwargs, however they are ordered; the factory runs only
\* after a lookup that found nothing, at most once per key; and a later get
\* returns the value of the first.
C2_LookupOncePerKey ==
    /\ FabricOnlyOnMiss
    /\ \A i \in 1..Len(log), j \in 1..Len(log) :
          Repeats(i, j) =>
              /\ log[j].orm = "no lookup"
              /\ ~log[j].fabric_called
              /\ log[i].raised = "None" =>
                    (log[j].raised = "None" /\ log[j].value = log[i].value)

\* C2 amended: the same, counted from a get that returned.  A get whose
\* lookup raises stores nothing.
C2_MemoizedOnceReturned ==
    /\ FabricOnlyOnMiss
    /\ \A i \in 1..Len(log), j \in 1..Len(log) :
          (Repeats(i, j) /\ log[i].raised = "None") =>
              /\ log[j].orm = "no lookup"
              /\ ~log[j].fabric_called
              /\ log[j].raised = "None"
              /\ log[j].value = log[i].value

\* A memoized None and a memoized factory object, each asked for again with
\* the kwargs written in the other order.
C2_Witness ==
    \E i \in Gets, j \in Gets :
        /\ Repeats(i, j)
        /\ Len(log[i].kwargs) = 2 /\ log[i].kwargs # log[j].kwargs
        /\ log[i].orm = "DoesNotExist"
        /\ log[j].orm = "no lookup"
        /\ log[j].value = log[i].value

LatestGet == CHOOSE i \in Gets : \A j \in Gets : j <= i

\* C3: forget_last drops exactly the entry of the kwargs of the latest get,
\* whatever they are, and leaves every other entry as it was.
C3_ForgetLastDropsLatest ==
    [][(/\ log' = Append(log, log'[Len(log')])
        /\ log'[Len(log')].op = "forget_last"
        /\ Gets # {}) =>
            mc'.cache =
                {e \in mc.cache : ~SameKwargs(e.key, log[LatestGet].kwargs)}]_vars

\* C7 as stated: DoesNotExist and MultipleObjectsReturned raised by the
\* lookup both reach the caller of get.
C7_OrmErrorsPropagate ==
    \A i \in Gets :
        log[i].orm \in {"DoesNotExist", "MultipleObjectsReturned"} =>
            log[i].raised = log[i].orm

\* C7 amended: MultipleObjectsReturned reaches the caller of get;
\* DoesNotExist does not: get then returns the factory's new object, or
\* None when no factory is configured.
C7_OnlyMultiplePropagates ==
    \A i \in Gets :
        /\ log[i].orm = "MultipleObjectsReturned" =>
              log[i].raised = "MultipleObjectsReturned"
        /\ log[i].orm = "DoesNotExist" =>
              /\ log[i].raised = "None"
              /\ log[i].fabric_called = mc.fabric
              /\ (log[i].value = None) = ~mc.fabric

\* Both lookups failed in one run: one raised MultipleObjectsReturned to the
\* caller, one found nothing and returned None.
C7_Witness ==
    \E i \in Gets, j \in Gets :
        /\ log[i].orm = "MultipleObjectsReturned"
        /\ log[i].raised = "MultipleObjectsReturned"
        /\ log[j].orm = "DoesNotExist"
        /\ log[j].raised = "None" /\ log[j].value = None

(***************************************************************************)
(* TransactionCM                                                           *)
(***************************************************************************)
\* The exception types a with-block's body may raise; "None" is a body that
\* ended normally.
ExTypes == {"None", "KeyError", "ValueError"}

\* The database aliases: using=None names the default connection.
Usings == {None, Some("other")}
Alias(using) == IF using = None THEN "default" ELSE using[1]
Aliases == {"default", "other"}

\* The catchers a caller may plug in, besides none: one that lets KeyError
\* pass as success, one that only logs and returns None, one that answers
\* with the number 1.  Python values are written as their repr.
Catchers == {None, Some("swallow_KeyError"), Some("log_only"), Some("one")}

CallerCatcher(name, ex_type) ==
    CASE name = "swallow_KeyError" ->
             IF ex_type \in {"None", "KeyError"} THEN "True" ELSE "False"
      [] name = "log_only" -> "None"
      [] name = "one" -> "1"

\* bool(v)
Truthy(v) == v \in {"True", "1"}

\* TransactionCM._default_catcher
_default_catcher(ex_type) == IF ex_type = "None" THEN "True" ELSE "False"

\* __init__: `catcher or self._default_catcher`.
TransactionCM(using, catcher) == [using |-> using, catcher |-> catcher]

Catch(self, ex_type) ==
    IF self.catcher = None
    THEN _default_catcher(ex_type)
    ELSE CallerCatcher(self.catcher[1], ex_type)

\* __enter__: enter_transaction_management(True, using) opens one more
\* level of transaction management on the connection.
__enter__(self, depth) ==
    [depth EXCEPT ![Alias(self.using)] = @ + 1]

\* A faulty __exit__, to show C4 depends on it: the result is not returned.
exit_without_return(self, ex_type, depth) ==
    LET result == Catch(self, ex_type)
    IN  [calls |-> IF Truthy(result)
                   THEN << <<"commit", Alias(self.using)>> >>
                   ELSE << <<"rollback", Alias(self.using)>> >>,
         returned |-> "None",
         depth |-> depth]

\* __exit__: the calls it makes on the transaction module, what it returns
\* and the depth of transaction management it leaves.
__exit__(self, ex_type, depth) ==
    LET result == Catch(self, ex_type)
    IN  [calls |-> IF Truthy(result)
                   THEN << <<"commit", Alias(self.using)>> >>
                   ELSE << <<"rollback", Alias(self.using)>> >>,
         returned |-> result,
         depth |-> depth]

NoExit ==
    [op |-> "none", using |-> None, catcher |-> None, ex_type |-> "None",
     calls |-> <<>>, returned |-> "None"]

TxInit ==
    /\ \E d0 \in [Aliases -> 0..1] :
          tx = [depth |-> d0, depth0 |-> d0, blocks |-> <<>>,
                pending |-> "None", entered |-> 0, last |-> NoExit]
    /\ SplitterIdle /\ CacheIdle /\ ExtractIdle /\ MatcherIdle

\* `with TransactionCM(using, catcher):` is reached.
Enter ==
    /\ tx.pending = "None"
    /\ tx.entered < MaxBlocks
    /\ \E using \in Usings, catcher \in Catchers :
          LET self == TransactionCM(using, catcher)
          IN  tx' = [tx EXCEPT !.depth = __enter__(self, @),
                               !.blocks = Append(@, self),
                               !.entered = @ + 1]
    /\ UNCHANGED <<qs, mr, call, mc, db, log, ex, mt>>

\* The body of the innermost with-block ends: normally, by raising, or by
\* an exception an inner block let through.  The exception leaves the
\* block unless __exit__ returns a true value.
Exit ==
    /\ tx.blocks # <<>>
    /\ \E ex_type \in ExTypes :
          /\ tx.pending # "None" => ex_type = tx.pending
          /\ LET self == tx.blocks[Len(tx.blocks)]
                 r == __exit__(self, ex_type, tx.depth)
             IN  tx' = [tx EXCEPT
                    !.depth = r.depth,
                    !.blocks = SubSeq(@, 1, Len(@) - 1),
                    !.pending = IF ex_type # "None" /\ ~Truthy(r.returned)
                                THEN ex_type ELSE "None",
                    !.last = [op |-> "exit", using |-> self.using,
                              catcher |-> self.catcher, ex_type |-> ex_type,
                              calls |-> r.calls, returned |-> r.returned]]
    /\ UNCHANGED <<qs, mr, call, mc, db, log, ex, mt>>

TxNext == Enter \/ Exit

SpecTx == TxInit /\ [][TxNext]_vars

(***************************************************************************)
(* Properties of TransactionCM                                             *)
(***************************************************************************)
\* What the catcher of the latest __exit__ answers to its arguments.
Verdict(e) ==
    IF e.catcher = None
    THEN (IF e.ex_type = "None" THEN "True" ELSE "False")
    ELSE CallerCatcher(e.catcher[1], e.ex_type)

\* C4: every __exit__ makes exactly one call, commit or rollback, on the
\* configured alias: commit iff the catcher answers true (with the default
\* catcher, iff the block raised nothing).  It returns the catcher's
\* answer, so an exception of the block is suppressed exactly when the
\* transaction was committed.
C4_ExitCommitsOrRollsBack ==
    tx.last.op = "exit" =>
        LET e == tx.last
            alias == IF e.using = None THEN "default" ELSE "other"
        IN  /\ e.calls = << <<IF Truthy(Verdict(e)) THEN "commit"
                               ELSE "rollback", alias>> >>
            /\ e.returned = Verdict(e)
            /\ e.ex_type # "None" =>
                  ((tx.pending = "None") <=> (e.calls[1][1] = "commit"))
            /\ e.ex_type = "None" => tx.pending = "None"

\* An inner block on the other connection whose plugged-in catcher let a
\* KeyError pass: committed and suppressed, with a block still open.
C4_Witness ==
    /\ tx.last.op = "exit"
    /\ tx.last.using = Some("other")
    /\ tx.last.catcher = Some("swallow_KeyError")
    /\ tx.last.ex_type = "KeyError"
    /\ tx.last.calls = << <<"commit", "other">> >>
    /\ tx.pending = "None"
    /\ tx.blocks # <<>>

\* C5: once every with-block that was entered has been left, the depth of
\* transaction management of each connection is what it was before the
\* first __enter__.
C5_DepthRestored ==
    (tx.last.op = "exit" /\ tx.blocks = <<>>) => tx.depth = tx.depth0

(***************************************************************************)
(* Request-parameter extractors                                            *)
(***************************************************************************)
\* s.split(sep) for a one-character separator.
RECURSIVE split(_, _)
split(s, sep) ==
    IF \A i \in 1..Len(s) : s[i] # sep THEN <<s>>
    ELSE LET k == CHOOSE i \in 1..Len(s) :
                     s[i] = sep /\ \A j \in 1..(i - 1) : s[j] # sep
         IN  <<SubSeq(s, 1, k - 1)>> \o split(SubSeq(s, k + 1, Len(s)), sep)

\* s.replace(old, new) for one-character old and new.
replace(s, old, new) == [i \in 1..Len(s) |-> IF s[i] = old THEN new ELSE s[i]]

\* map(int, strings): the first string int() refuses raises ValueError.
RECURSIVE map_int(_)
map_int(strings) ==
    IF strings = <<>> THEN [raised |-> "None", value |-> <<>>]
    ELSE LET h == int(Head(strings))
             t == map_int(Tail(strings))
         IN  IF h.raised # "None" THEN [raised |-> h.raised, value |-> <<>>]
             ELSE IF t.raised # "None" THEN t
             ELSE [raised |-> "None", value |-> <<h.value>> \o t.value]

\* extract_int_list: the value is a list, so it is wrapped like any
\* present value.
extract_int_list(request, key) ==
    LET parts == split(REQUEST_get(request, key, <<>>), ",")
        r == map_int(SelectSeq(parts, LAMBDA x : x # <<>>))
    IN  IF r.raised # "None" THEN [raised |-> r.raised, value |-> None]
        ELSE [raised |-> "None", value |-> Some(r.value)]

AllDigits(s) == \A i \in 1..Len(s) : s[i] \in Digits

\* What strptime's %d, %m and %Y accept.
IsDay(s) ==
    \/ Len(s) \in {1, 2} /\ AllDigits(s) /\ DigitsVal(s) \in 1..31
    \/ Len(s) = 2 /\ s[1] = " " /\ s[2] \in Digits /\ s[2] # "0"
IsMonth(s) == Len(s) \in {1, 2} /\ AllDigits(s) /\ DigitsVal(s) \in 1..12
IsYear(s) == Len(s) = 4 /\ AllDigits(s)

IsLeap(y) == y % 4 = 0 /\ (y % 100 # 0 \/ y % 400 = 0)

DaysIn(y, m) ==
    IF m = 2 THEN (IF IsLeap(y) THEN 29 ELSE 28)
    ELSE IF m \in {4, 6, 9, 11} THEN 30 ELSE 31

\* datetime(y, m, d)
datetime(y, m, d) ==
    IF y >= 1 /\ m \in 1..12 /\ d >= 1 /\ d <= DaysIn(y, m)
    THEN [raised |-> "None", value |-> Some([year |-> y, month |-> m,
                                             day |-> d, type |-> "datetime"])]
    ELSE [raised |-> "ValueError", value |-> None]

\* datetime.strptime(s, fmt) for fmt '%d.%m.%Y' ("dmY") and '%Y.%m.%d'
\* ("Ymd"): the whole of s must be the three fields between dots.
strptime(s, fmt) ==
    LET parts == split(s, ".")
        dd == IF fmt = "dmY" THEN 1 ELSE 3
        yy == IF fmt = "dmY" THEN 3 ELSE 1
    IN  IF Len(parts) = 3 /\ IsDay(parts[dd]) /\ IsMonth(parts[2])
           /\ IsYear(parts[yy])
        THEN datetime(DigitsVal(parts[yy]), DigitsVal(parts[2]),
                      DigitsVal(LStrip(parts[dd])))
        ELSE [raised |-> "ValueError", value |-> None]

\* str_to_date; raw_str is None or a str.
str_to_date(raw_str) ==
    IF raw_str # None /\ raw_str[1] # <<>>
    THEN LET s == replace(Slice(raw_str[1], 0, 10), "-", ".")
             first == strptime(s, "dmY")
             second == strptime(s, "Ymd")
         IN  IF first.raised # "ValueError" THEN first
             ELSE IF second.raised # "ValueError" THEN second
             ELSE [raised |-> "None", value |-> None]
    ELSE [raised |-> "None", value |-> None]

\* extract_date: request.REQUEST.get(key) is None for a key not sent.
extract_date(request, key, as_date) ==
    LET res == str_to_date(IF key \in DOMAIN request
                           THEN Some(request[key]) ELSE None)
    IN  IF res.raised = "None" /\ res.value # None /\ as_date
        THEN [res EXCEPT !.value = Some([res.value[1] EXCEPT !.type = "date"])]
        ELSE res

\* The request values tried: every string of up to MaxStr characters that
\* matter to int() and split(), and dates put together from fields.
IntChars == {"1", "2", ",", "x", "-", " "}

RECURSIVE Strings(_, _)
Strings(chars, n) ==
    IF n = 0 THEN {<<>>}
    ELSE LET shorter == Strings(chars, n - 1)
         IN  shorter \cup {Append(t, c) : t \in shorter, c \in chars}

DayMonthFields == {<<"3", "1">>, <<"0", "2">>, <<"2", "9">>, <<"4">>, <<"x", "1">>}
YearFields == {<<"2", "0", "1", "2">>, <<"2", "0", "1", "1">>}
Separators == {".", "-"}
Suffixes == {<<>>, <<",", " ", "x">>}

DateStrings ==
    {a \o <<p>> \o b \o <<p>> \o y \o z :
        a \in DayMonthFields, b \in DayMonthFields, y \in YearFields,
        p \in Separators, z \in Suffixes}
    \cup
    {y \o <<p>> \o b \o <<p>> \o a \o z :
        a \in DayMonthFields, b \in DayMonthFields, y \in YearFields,
        p \in Separators, z \in Suffixes}

RawValues == Strings(IntChars, MaxStr) \cup DateStrings

\* A request that sent the key "k" with a raw value, or did not send it.
ExtractRequests == {<<>>} \cup {[k |-> raw] : raw \in RawValues}

ExtractInit ==
    /\ \E request \in ExtractRequests :
          ex = [pc |-> "call", request |-> request, fn |-> "none",
                raised |-> "None", value |-> None]
    /\ SplitterIdle /\ CacheIdle /\ TxIdle /\ MatcherIdle

Returned(fn, r) ==
    /\ ex' = [ex EXCEPT !.pc = "done", !.fn = fn, !.raised = r.raised,
                        !.value = r.value]
    /\ UNCHANGED <<qs, mr, call, mc, db, log, tx, mt>>

CallExtractInt ==
    /\ ex.pc = "call"
    /\ Returned("extract_int", extract_int(ex.request, "k"))

CallExtractIntList ==
    /\ ex.pc = "call"
    /\ Returned("extract_int_list", extract_int_list(ex.request, "k"))

CallExtractDate ==
    /\ ex.pc = "call"
    /\ \E as_date \in BOOLEAN :
          Returned("extract_date", extract_date(ex.request, "k", as_date))

\* str_to_date on the raw value, or on None.
CallStrToDate ==
    /\ ex.pc = "call"
    /\ Returned("str_to_date",
                str_to_date(IF "k" \in DOMAIN ex.request
                            THEN Some(ex.request["k"]) ELSE None))

ExtractNext ==
    CallExtractInt \/ CallExtractIntList \/ CallExtractDate \/ CallStrToDate

SpecExtract == ExtractInit /\ [][ExtractNext]_vars

(***************************************************************************)
(* Properties of the extractors                                            *)
(***************************************************************************)
\* The value sent is not what the extractor is to parse.
Malformed(fn, request) ==
    LET raw == REQUEST_get(request, "k", <<>>)
    IN  CASE fn = "extract_int" -> raw # <<>> /\ int(raw).raised = "ValueError"
          [] fn = "extract_int_list" ->
                \E i \in 1..Len(split(raw, ",")) :
                    /\ split(raw, ",")[i] # <<>>
                    /\ int(split(raw, ",")[i]).raised = "ValueError"
          [] OTHER ->
                /\ raw # <<>>
                /\ strptime(replace(Slice(raw, 0, 10), "-", "."), "dmY").raised
                      = "ValueError"
                /\ strptime(replace(Slice(raw, 0, 10), "-", "."), "Ymd").raised
                      = "ValueError"

\* C8: no extractor lets a ValueError out, whatever the request value; a
\* malformed value yields None.
C8_ExtractorsSwallowValueError ==
    ex.pc = "done" =>
        /\ ex.raised = "None"
        /\ Malformed(ex.fn, ex.request) => ex.value = None

(***************************************************************************)
(* matcher and model_to_dict                                               *)
(***************************************************************************)
\* s.startswith(p), s.endswith(p)
startswith(s, p) == Len(p) <= Len(s) /\ SubSeq(s, 1, Len(p)) = p
endswith(s, p) ==
    Len(p) <= Len(s) /\ SubSeq(s, Len(s) - Len(p) + 1, Len(s)) = p

\* The function make_checker builds for one pattern, applied to s.
pattern_func(pattern, s) ==
    IF pattern # <<>> /\ pattern[Len(pattern)] = "*"
    THEN startswith(s, SubSeq(pattern, 1, Len(pattern) - 1))
    ELSE IF pattern # <<>> /\ pattern[1] = "*"
         THEN endswith(s, Tail(pattern))
         ELSE s = pattern

\* make_checker(patterns, default)(s); patterns is None or a list.
make_checker(patterns, default, s) ==
    LET matchers == IF patterns = None THEN <<>> ELSE patterns[1]
    IN  IF matchers # <<>>
        THEN \E i \in 1..Len(matchers) : pattern_func(matchers[i], s)
        ELSE default

\* A faulty matcher, to show C9 depends on it: the exclude checker built
\* with the default of the include checker.
matcher_dropping_by_default(include, exclude, s) ==
    make_checker(include, TRUE, s) /\ ~make_checker(exclude, TRUE, s)

\* matcher(include, exclude)(s)
matcher(include, exclude, s) ==
    make_checker(include, TRUE, s) /\ ~make_checker(exclude, FALSE, s)

\* obj.__class__._meta.fields of the model serialized: two plain fields and
\* a foreign key, whose attname ends with '_id'.
MetaFields ==
    << [attname |-> <<"a">>, fk |-> FALSE],
       [attname |-> <<"a", "b">>, fk |-> FALSE],
       [attname |-> <<"b", "_", "i", "d">>, fk |-> TRUE] >>

\* model_to_dict: the items of the dict it returns.  obj is the set of the
\* attribute names getattr finds on it; a foreign key is read through the
\* attribute named by its attname without '_id', and a field whose
\* attribute is missing is passed over.
model_to_dict(obj, include, exclude) ==
    {[key |-> MetaFields[i].attname,
      value |-> IF MetaFields[i].fk THEN "id and name" ELSE "value"] :
        i \in {j \in 1..Len(MetaFields) :
                 /\ matcher(include, exclude, MetaFields[j].attname)
                 /\ (IF MetaFields[j].fk
                     THEN SubSeq(MetaFields[j].attname, 1,
                                 Len(MetaFields[j].attname) - 3)
                     ELSE MetaFields[j].attname) \in obj}}

\* The patterns and strings tried.
Patterns ==
    {<<"a", "*">>, <<"*", "_", "i", "d">>, <<"a", "b">>, <<"*">>,
     <<"*", "b", "*">>}

TestStrings ==
    {<<>>, <<"a">>, <<"a", "b">>, <<"b", "_", "i", "d">>, <<"b", "a">>,
     <<"_", "i", "d">>, <<"*", "b", "a">>, <<"a", "*">>}

RECURSIVE Lists(_, _)
Lists(elems, n) ==
    IF n = 0 THEN {<<>>}
    ELSE LET shorter == Lists(elems, n - 1)
         IN  shorter \cup {Append(t, e) : t \in shorter, e \in elems}

PatternLists == {None} \cup {Some(l) : l \in Lists(Patterns, MaxPatterns)}

Objects == {{<<"a">>, <<"a", "b">>, <<"b">>}, {<<"a">>, <<"a", "b">>}}

MatcherInit ==
    /\ \E include \in PatternLists, exclude \in PatternLists, obj \in Objects :
          mt = [pc |-> "call", include |-> include, exclude |-> exclude,
                obj |-> obj, s |-> <<>>, result |-> FALSE, res |-> {}]
    /\ SplitterIdle /\ CacheIdle /\ TxIdle /\ ExtractIdle

\* matcher(include, exclude) applied to a string.
Match ==
    /\ mt.pc = "call"
    /\ \E s \in TestStrings :
          mt' = [mt EXCEPT !.pc = "matched", !.s = s,
                           !.result = matcher(mt.include, mt.exclude, s)]
    /\ UNCHANGED <<qs, mr, call, mc, db, log, tx, ex>>

\* model_to_dict(obj, include, exclude)
ModelToDict ==
    /\ mt.pc = "call"
    /\ mt' = [mt EXCEPT !.pc = "dict",
                        !.res = model_to_dict(mt.obj, mt.include, mt.exclude)]
    /\ UNCHANGED <<qs, mr, call, mc, db, log, tx, ex>>

MatcherNext == Match \/ ModelToDict

SpecMatcher == MatcherInit /\ [][MatcherNext]_vars

(***************************************************************************)
(* Properties of matcher                                                   *)
(***************************************************************************)
StarFree(x) == \A i \in 1..Len(x) : x[i] # "*"

\* The patterns the docstring describes: 'xyz', '*xyz', 'xyz*'.
Described(p) ==
    \/ StarFree(p)
    \/ p # <<>> /\ p[1] = "*" /\ StarFree(Tail(p))
    \/ p # <<>> /\ p[Len(p)] = "*" /\ StarFree(SubSeq(p, 1, Len(p) - 1))

\* s matches a described pattern, as the docstring says.
Suits(p, s) ==
    \/ StarFree(p) /\ s = p
    \/ /\ p # <<>> /\ p[1] = "*" /\ StarFree(Tail(p))
       /\ \E k \in 0..Len(s) : s = SubSeq(s, 1, k) \o Tail(p)
    \/ /\ p # <<>> /\ p[Len(p)] = "*" /\ StarFree(SubSeq(p, 1, Len(p) - 1))
       /\ \E k \in 0..Len(s) :
             s = SubSeq(p, 1, Len(p) - 1) \o SubSeq(s, Len(s) - k + 1, Len(s))

ListOf(patterns) == IF patterns = None THEN <<>> ELSE patterns[1]

Accepted(include, exclude, s) ==
    /\ \/ ListOf(include) = <<>>
       \/ \E i \in 1..Len(ListOf(include)) : Suits(ListOf(include)[i], s)
    /\ ~\E i \in 1..Len(ListOf(exclude)) : Suits(ListOf(exclude)[i], s)

AllDescribed(patterns) ==
    \A i \in 1..Len(ListOf(patterns)) : Described(ListOf(patterns)[i])

\* C9: for include and exclude lists of patterns of the described forms,
\* the predicate is true of s exactly when include is empty or None or s
\* suits one of its patterns, and s suits no pattern of exclude; and every
\* key of model_to_dict's result is an attname the predicate accepts.
C9_MatcherAcceptsExactly ==
    (AllDescribed(mt.include) /\ AllDescribed(mt.exclude)) =>
        /\ mt.pc = "matched" =>
              (mt.result <=> Accepted(mt.include, mt.exclude, mt.s))
        /\ mt.pc = "dict" =>
              \A e \in mt.res : Accepted(mt.include, mt.exclude, e.key)

\* A string kept by a suffix pattern of a two-pattern include list and not
\* dropped by a non-empty exclude list.
C9_Witness ==
    /\ mt.pc = "matched" /\ mt.result
    /\ mt.include = Some(<< <<"a", "b">>, <<"*", "_", "i", "d">> >>)
    /\ mt.exclude = Some(<< <<"a", "*">> >>)
    /\ mt.s = <<"b", "_", "i", "d">>

=============================================================================
